---- MODULE Spec2Model ----
(***************************************************************************)
(* refiner-cli: the `clean` command (src/src/index.js 61-157), the         *)
(* analysis it runs (analyzeProject, 167-269) and the cleanup it may run   *)
(* afterwards (cleanProject, 271-342; removeEmptyDirectories, 344-371).    *)
(*                                                                         *)
(* Strings that are paths or module specifiers are represented by the      *)
(* sequence of their '/'-separated segments, i.e. by what                  *)
(* String.prototype.split('/') returns: "lodash/fp" is <<"lodash","fp">>,  *)
(* "./s/b.js" is <<".","s","b.js">>, "/r/a.js" is <<"","r","a.js">>.       *)
(* An absolute, normalised path is the sequence of its segments below the  *)
(* root: "/r/s/b.js" is <<"r","s","b.js">>.                                *)
(***************************************************************************)
EXTENDS Integers, Sequences, FiniteSets, TLC

VARIABLES
    options,             \* commander's options of `clean`: [yes, dryRun]
    content,             \* candidate file -> its text, as [parses, stmts]
    manifest,            \* package.json as it is on disk
    fsFiles,             \* regular files that exist on disk
    fsDirs,              \* directories that exist on disk
    pc,                  \* where the clean command's handler stands
    error,               \* what the handler's catch block received
    files,               \* analyzeProject: glob's result, in its order
    idx,                 \* analyzeProject: position of the for-of loop
    usedDependencies,    \* analyzeProject: Set of package names
    fileImports,         \* analyzeProject: keys of the fileImports Map
    unusedFiles,         \* analyzeProject: list of {path, size}
    unusedDependencies,  \* analyzeProject: list of {name, version, size}
    answer,              \* what the user typed at the prompt ("" = not asked)
    prompted,            \* the confirmation question was shown
    cleanInvoked,        \* cleanProject was called (line 118)
    ci,                  \* cleanProject: position of the running for-of loop
    removedDependencies, \* cleanProject: list of names
    removedFiles,        \* cleanProject: list of relative paths
    removedDirs,         \* cleanProject: list of directory names
    freedSpace           \* cleanProject: byte counter

vars == <<options, content, manifest, fsFiles, fsDirs, pc, error, files, idx,
          usedDependencies, fileImports, unusedFiles, unusedDependencies,
          answer, prompted, cleanInvoked, ci, removedDependencies,
          removedFiles, removedDirs, freedSpace>>

analysisVars == <<files, idx, usedDependencies, fileImports, unusedFiles,
                  unusedDependencies>>

cleanVars == <<ci, removedDependencies, removedFiles, removedDirs, freedSpace>>

-----------------------------------------------------------------------------
(* Bounds and the small universe the inputs are drawn from.                *)

\* total number of import/require statements in the project's files
MaxStmts == 2

\* process.cwd(), "/r"
projectPath == <<"r">>

\* the candidate files glob finds: /r/a.js and /r/s/b.js
FileA == <<"r", "a.js">>
FileB == <<"r", "s", "b.js">>
CandidateFiles == {FileA, FileB}

\* stat(file).size of each candidate file
FileSize(file) == IF file = FileA THEN 1 ELSE 2

\* module specifiers that occur in the files
SpLodash == <<"lodash", "fp">>        \* 'lodash/fp'
SpScoped == <<"@scope", "pkg">>       \* '@scope/pkg'
SpToB    == <<".", "s", "b.js">>      \* './s/b.js'

\* package names the manifest may declare
Lodash == <<"lodash">>
ScopedPkg == <<"@scope", "pkg">>

\* bytes below node_modules/<name>
DepSize(name) == IF name = Lodash THEN 4 ELSE 8

\* segments whose first character is '.'
DotSegments == {".", ".."}

\* the statements acorn-walk's visitors look at, as AST nodes
ImportOf(spec) ==
    [type |-> "ImportDeclaration", callee |-> "", argType |-> "Literal",
     valueKind |-> "string", value |-> spec]
RequireOf(spec) ==
    [type |-> "CallExpression", callee |-> "require", argType |-> "Literal",
     valueKind |-> "string", value |-> spec]
\* require(42): a Literal whose value is not a string
RequireNumber ==
    [type |-> "CallExpression", callee |-> "require", argType |-> "Literal",
     valueKind |-> "number", value |-> <<>>]
\* require(name): the argument is an Identifier; any other argument that is
\* no Literal, or none at all, fails the same test (line 218) the same way
RequireIdentifier ==
    [type |-> "CallExpression", callee |-> "require", argType |-> "Identifier",
     valueKind |-> "none", value |-> <<>>]

Stmts == {ImportOf(SpLodash), RequireOf(SpScoped), RequireOf(SpToB),
          RequireNumber, RequireIdentifier}

SeqsUpTo(n) == UNION {[1..k -> Stmts] : k \in 0..n}

\* a file's text: whether acorn can parse it, and its statements in source order
Contents == [parses : BOOLEAN, stmts : SeqsUpTo(MaxStmts)]

Projects ==
    {c \in [CandidateFiles -> Contents] :
        Len(c[FileA].stmts) + Len(c[FileB].stmts) <= MaxStmts}

\* package.json: dependencies and devDependencies, as entry lists
Manifests ==
    {[dependencies |-> <<[name |-> Lodash, version |-> "^4.17.21"]>>,
      devDependencies |-> <<>>],
     [dependencies |-> <<[name |-> Lodash, version |-> "^4.17.21"]>>,
      devDependencies |-> <<[name |-> ScopedPkg, version |-> "^1.0.0"]>>]}

PackageJson == <<"r", "package.json">>
NodeModules == <<"r", "node_modules">>
InstalledFile == <<"r", "node_modules", ".package-lock.json">>
SubDir == <<"r", "s">>

\* what the user may type at the prompt
Answers == {"y", "Y", "n"}

Range(s) == {s[i] : i \in 1..Len(s)}

\* the elements of a finite set, as a list in some fixed order
RECURSIVE SetToSeq(_)
SetToSeq(S) ==
    IF S = {} THEN <<>>
    ELSE LET x == CHOOSE y \in S : TRUE IN <<x>> \o SetToSeq(S \ {x})

Orders(S) == {s \in [1..Cardinality(S) -> S] : Range(s) = S}

-----------------------------------------------------------------------------
(* path and string functions                                               *)

\* String.prototype.startsWith('.') and ('/') on a specifier
StartsWithDot(spec) == Len(spec) >= 1 /\ spec[1] \in DotSegments
StartsWithSlash(spec) == Len(spec) >= 2 /\ spec[1] = ""

\* importPath.split('/')[0]
PackageName(spec) == <<spec[1]>>

\* path.dirname of an absolute path
Dirname(path) == SubSeq(path, 1, Len(path) - 1)

\* path normalisation: '.' and empty segments vanish, '..' pops
RECURSIVE Normalize(_, _)
Normalize(segs, acc) ==
    IF segs = <<>> THEN acc
    ELSE LET s == Head(segs) IN
         IF s = "." \/ s = "" THEN Normalize(Tail(segs), acc)
         ELSE IF s = ".."
              THEN Normalize(Tail(segs),
                             IF acc = <<>> THEN acc
                             ELSE SubSeq(acc, 1, Len(acc) - 1))
              ELSE Normalize(Tail(segs), Append(acc, s))

\* path.resolve(from, to): `to` wins when it is absolute
Resolve(from, to) ==
    IF StartsWithSlash(to) THEN Normalize(to, <<>>)
    ELSE Normalize(from \o to, <<>>)

\* file.replace(projectPath + '/', '')
RelativePath(file) ==
    IF Len(file) > Len(projectPath)
       /\ SubSeq(file, 1, Len(projectPath)) = projectPath
    THEN SubSeq(file, Len(projectPath) + 1, Len(file))
    ELSE file

\* answer.toLowerCase()
ToLowerCase(s) == IF s = "Y" THEN "y" ELSE s

-----------------------------------------------------------------------------
(* analyzeProject: the per-file work                                       *)

\* the body shared by both visitors: classify one specifier and record it
Reference(file, spec, acc) ==
    IF ~StartsWithDot(spec) /\ ~StartsWithSlash(spec)
    THEN [acc EXCEPT !.used = @ \cup {PackageName(spec)}]
    ELSE [acc EXCEPT !.imports = @ \cup {Resolve(Dirname(file), spec)},
                     !.isUsed = TRUE]

\* the visitors ImportDeclaration and CallExpression on one node; a Literal
\* that is no string has no startsWith: the visitor throws a TypeError
Visit(file, node, acc) ==
    IF node.type = "ImportDeclaration"
    THEN Reference(file, node.value, acc)
    ELSE IF node.callee = "require" /\ node.argType = "Literal"
         THEN IF node.valueKind = "string"
              THEN Reference(file, node.value, acc)
              ELSE [acc EXCEPT !.threw = TRUE]
         ELSE acc

\* walk(ast, visitors): the nodes in source order, until a visitor throws
RECURSIVE Walk(_, _, _)
Walk(file, body, acc) ==
    IF body = <<>> \/ acc.threw THEN acc
    ELSE Walk(file, Tail(body), Visit(file, Head(body), acc))

\* a parser that accepts every text
ParseOkTolerant(c) == TRUE

\* parse(content, ...) returns an AST (TRUE) or throws a SyntaxError (FALSE)
ParseOk(c) == c.parses

\* one iteration of the loop once the file is read: the try block and its
\* catch; g is [used, imports, unused], the three accumulators
ProcessFile(file, c, g) ==
    IF ~ParseOk(c) THEN g
    ELSE LET w == Walk(file, c.stmts,
                       [used |-> g.used, imports |-> g.imports,
                        isUsed |-> FALSE, threw |-> FALSE])
         IN [used |-> w.used,
             imports |-> w.imports,
             unused |->
                 IF ~w.threw /\ ~w.isUsed /\ file \notin w.imports
                 THEN Append(g.unused, [path |-> RelativePath(file),
                                        size |-> FileSize(file)])
                 ELSE g.unused]

\* {...packageJson.dependencies, ...packageJson.devDependencies}, as entries
AllDependencies(m) == m.dependencies \o m.devDependencies

\* getFolderSize(join(projectPath, 'node_modules', name)); 0 when absent
GetFolderSize(name) == IF NodeModules \in fsDirs THEN DepSize(name) ELSE 0

\* the loop over Object.entries(allDependencies)
RECURSIVE FindUnused(_, _)
FindUnused(entries, used) ==
    IF entries = <<>> THEN <<>>
    ELSE LET e == Head(entries) IN
         IF e.name \notin used
         THEN <<[name |-> e.name, version |-> e.version,
                 size |-> GetFolderSize(e.name)]>>
              \o FindUnused(Tail(entries), used)
         ELSE FindUnused(Tail(entries), used)

\* lines 185-244 without I/O failures: the accumulators after the loop has
\* run over the files in the given order, starting from g
RECURSIVE AnalyzeInOrder(_, _)
AnalyzeInOrder(order, g) ==
    IF order = <<>> THEN g
    ELSE AnalyzeInOrder(Tail(order),
                        ProcessFile(Head(order), content[Head(order)], g))

-----------------------------------------------------------------------------
Init ==
    /\ options \in [yes : BOOLEAN, dryRun : BOOLEAN]
    /\ content \in Projects
    /\ manifest \in Manifests
    /\ fsFiles = CandidateFiles \cup {PackageJson, InstalledFile}
    /\ fsDirs = {projectPath, SubDir, NodeModules}
    /\ pc = "readManifest"
    /\ error = "none"
    /\ files = <<>>
    /\ idx = 1
    /\ usedDependencies = {}
    /\ fileImports = {}
    /\ unusedFiles = <<>>
    /\ unusedDependencies = <<>>
    /\ answer = ""
    /\ prompted = FALSE
    /\ cleanInvoked = FALSE
    /\ ci = 1
    /\ removedDependencies = <<>>
    /\ removedFiles = <<>>
    /\ removedDirs = <<>>
    /\ freedSpace = 0

\* lines 169-170: read and JSON.parse package.json; a failure reaches the
\* outer catch (266), is rethrown, and the command's catch exits with 1
ReadManifest ==
    /\ pc = "readManifest"
    /\ \E ok \in BOOLEAN :
          IF ok THEN pc' = "glob" /\ error' = error
          ELSE pc' = "exit1" /\ error' = "manifest"
    /\ UNCHANGED <<options, content, manifest, fsFiles, fsDirs, analysisVars,
                   answer, prompted, cleanInvoked, cleanVars>>

\* lines 179-187: glob returns the candidate files in some order
GlobFiles ==
    /\ pc = "glob"
    /\ \E order \in Orders(CandidateFiles) : files' = order
    /\ idx' = 1
    /\ usedDependencies' = {}
    /\ fileImports' = {}
    /\ unusedFiles' = <<>>
    /\ pc' = "loop"
    /\ UNCHANGED <<options, content, manifest, fsFiles, fsDirs, error,
                   unusedDependencies, answer, prompted, cleanInvoked,
                   cleanVars>>

\* lines 190-244: one iteration; readFile and stat stand outside the inner
\* try, so their rejection leaves the loop through the outer catch
AnalyzeFile ==
    /\ pc = "loop"
    /\ idx <= Len(files)
    /\ \E io \in {"ok", "readFile", "stat"} :
          IF io = "ok"
          THEN LET g == ProcessFile(files[idx], content[files[idx]],
                                    [used |-> usedDependencies,
                                     imports |-> fileImports,
                                     unused |-> unusedFiles])
               IN /\ usedDependencies' = g.used
                  /\ fileImports' = g.imports
                  /\ unusedFiles' = g.unused
                  /\ idx' = idx + 1
                  /\ pc' = pc
                  /\ error' = error
          ELSE /\ pc' = "exit1"
               /\ error' = "read"
               /\ UNCHANGED <<usedDependencies, fileImports, unusedFiles, idx>>
    /\ UNCHANGED <<options, content, manifest, fsFiles, fsDirs, files,
                   unusedDependencies, answer, prompted, cleanInvoked,
                   cleanVars>>

\* lines 246-265: the loop over the declared dependencies, and the return
FindUnusedDependencies ==
    /\ pc = "loop"
    /\ idx > Len(files)
    /\ unusedDependencies' = FindUnused(AllDependencies(manifest),
                                        usedDependencies)
    /\ pc' = "analysed"
    /\ UNCHANGED <<options, content, manifest, fsFiles, fsDirs, error, files,
                   idx, usedDependencies, fileImports, unusedFiles, answer,
                   prompted, cleanInvoked, cleanVars>>

-----------------------------------------------------------------------------
(* the clean command after the analysis (lines 72-118)                     *)

\* line 72: nothing to remove
NothingUnused ==
    Len(unusedDependencies) = 0 /\ Len(unusedFiles) = 0

\* line 93: the question is asked
NeedsPrompt(opts) == ~opts.yes /\ ~opts.dryRun

\* line 102: what the question's promise resolves to
Confirms(text) == ToLowerCase(text) = "y"

\* a dry run that is not looked at
DryRunIgnored(opts) == FALSE

\* line 112: the dry run returns before cleanProject
DryRunReturns(opts) == opts.dryRun

\* where cleanProject's first await is: the first loop that has an item
FirstCleanStep ==
    IF Len(unusedDependencies) > 0 THEN "cleanDeps"
    ELSE IF Len(unusedFiles) > 0 THEN "cleanFiles"
    ELSE "prune"

\* lines 112-118: the dry-run return, else the call of cleanProject
Proceed ==
    IF DryRunReturns(options)
    THEN pc' = "dryRunComplete" /\ cleanInvoked' = cleanInvoked
    ELSE pc' = FirstCleanStep /\ cleanInvoked' = TRUE

\* lines 72-118 when analyzeProject has returned: up to the question, or
\* straight on to the dry-run return or the call of cleanProject
AfterAnalysis ==
    /\ pc = "analysed"
    /\ IF NothingUnused
       THEN pc' = "alreadyClean" /\ UNCHANGED <<prompted, cleanInvoked>>
       ELSE IF NeedsPrompt(options)
            THEN pc' = "prompt" /\ prompted' = TRUE /\ cleanInvoked' = cleanInvoked
            ELSE Proceed /\ prompted' = prompted
    /\ UNCHANGED <<options, content, manifest, fsFiles, fsDirs, error,
                   analysisVars, answer, cleanVars>>

\* lines 100-118: the user's answer arrives
Answer ==
    /\ pc = "prompt"
    /\ \E text \in Answers :
          /\ answer' = text
          /\ IF ~Confirms(text)
             THEN pc' = "cancelled" /\ cleanInvoked' = cleanInvoked
             ELSE Proceed
    /\ UNCHANGED <<options, content, manifest, fsFiles, fsDirs, error,
                   analysisVars, prompted, cleanVars>>

-----------------------------------------------------------------------------
(* cleanProject (lines 271-342)                                            *)

\* lines 284-289: delete the name from both sections when its value is truthy
DropEntry(entries, name) ==
    SelectSeq(entries, LAMBDA e : ~(e.name = name /\ e.version # ""))
RemoveFromManifest(m, name) ==
    [dependencies |-> DropEntry(m.dependencies, name),
     devDependencies |-> DropEntry(m.devDependencies, name)]

\* lines 278-297: one iteration of the dependency loop
CleanDependency ==
    /\ pc = "cleanDeps"
    /\ ci <= Len(unusedDependencies)
    /\ \E io \in {"ok", "readFile", "writeFile"} :
          IF io = "ok"
          THEN /\ manifest' = RemoveFromManifest(manifest,
                                                 unusedDependencies[ci].name)
               /\ removedDependencies' =
                      Append(removedDependencies, unusedDependencies[ci].name)
          ELSE UNCHANGED <<manifest, removedDependencies>>
    /\ IF ci < Len(unusedDependencies)
       THEN ci' = ci + 1 /\ pc' = pc
       ELSE ci' = 1 /\ pc' = (IF Len(unusedFiles) > 0 THEN "cleanFiles"
                              ELSE "prune")
    /\ UNCHANGED <<options, content, fsFiles, fsDirs, error, analysisVars,
                   answer, prompted, cleanInvoked, removedFiles, removedDirs,
                   freedSpace>>

\* lines 304-305: the counter grows by the size stat reports
AddFreed(total, size) == total + size

\* lines 300-312: one iteration of the file loop
CleanFile ==
    /\ pc = "cleanFiles"
    /\ ci <= Len(unusedFiles)
    /\ LET fullPath == Resolve(projectPath, unusedFiles[ci].path) IN
       \E io \in {"ok", "stat", "unlink"} :
          IF io = "stat" \/ fullPath \notin fsFiles
          THEN UNCHANGED <<fsFiles, removedFiles, freedSpace>>
          ELSE /\ freedSpace' = AddFreed(freedSpace, FileSize(fullPath))
               /\ IF io = "unlink"
                  THEN UNCHANGED <<fsFiles, removedFiles>>
                  ELSE /\ fsFiles' = fsFiles \ {fullPath}
                       /\ removedFiles' =
                              Append(removedFiles, unusedFiles[ci].path)
    /\ IF ci < Len(unusedFiles)
       THEN ci' = ci + 1 /\ pc' = pc
       ELSE ci' = 1 /\ pc' = "prune"
    /\ UNCHANGED <<options, content, manifest, fsDirs, error, analysisVars,
                   answer, prompted, cleanInvoked, removedDependencies,
                   removedDirs>>

\* readdir(directory): the entries directly below it
Entries(directory, dirs, fls) ==
    {e \in dirs \cup fls :
        Len(e) = Len(directory) + 1
        /\ SubSeq(e, 1, Len(directory)) = directory}

\* what may go wrong while pruning: nothing, or one operation on one
\* directory (the first failure ends the traversal, so one is enough)
Faults(dirs) ==
    {[op |-> "none", dir |-> <<>>]}
    \cup [op : {"readdir", "rmdir"}, dir : dirs]

\* rmdir(directory), which the fault may make fail
Rmdir(directory, dirs, fault) ==
    IF fault = [op |-> "rmdir", dir |-> directory]
    THEN [removed |-> FALSE, threw |-> TRUE, dirs |-> dirs]
    ELSE [removed |-> TRUE, threw |-> FALSE, dirs |-> dirs \ {directory}]

\* lines 344-371; the result is [removed, threw, dirs]: the value returned,
\* whether the promise rejected instead, and the directories left on disk
RECURSIVE RemoveEmptyDirectories(_, _, _, _)
RECURSIVE PruneEntries(_, _, _, _, _)
RemoveEmptyDirectories(directory, dirs, fls, fault) ==
    IF fault = [op |-> "readdir", dir |-> directory]
    THEN [removed |-> FALSE, threw |-> TRUE, dirs |-> dirs]
    ELSE LET found == SetToSeq(Entries(directory, dirs, fls)) IN
         IF Len(found) = 0 THEN Rmdir(directory, dirs, fault)
         ELSE LET r == PruneEntries(found, dirs, fls, fault, TRUE) IN
              IF r.threw
              THEN [removed |-> FALSE, threw |-> TRUE, dirs |-> r.dirs]
              ELSE IF r.isEmpty THEN Rmdir(directory, r.dirs, fault)
                   ELSE [removed |-> FALSE, threw |-> FALSE, dirs |-> r.dirs]

\* lines 351-363: the loop over the entries; [isEmpty, threw, dirs]
PruneEntries(found, dirs, fls, fault, isEmpty) ==
    IF found = <<>> THEN [isEmpty |-> isEmpty, threw |-> FALSE, dirs |-> dirs]
    ELSE IF Head(found) \in dirs
         THEN LET r == RemoveEmptyDirectories(Head(found), dirs, fls, fault) IN
              IF r.threw
              THEN [isEmpty |-> isEmpty, threw |-> TRUE, dirs |-> r.dirs]
              ELSE PruneEntries(Tail(found), r.dirs, fls, fault,
                                isEmpty /\ r.removed)
         ELSE PruneEntries(Tail(found), dirs, fls, fault, FALSE)

\* line 315: the call stands in no try block, so a rejection of
\* removeEmptyDirectories rejects cleanProject, and the command exits with 1
PruneDirectories ==
    /\ pc = "prune"
    /\ \E fault \in Faults(fsDirs) :
          LET r == RemoveEmptyDirectories(projectPath, fsDirs, fsFiles, fault)
          IN /\ fsDirs' = r.dirs
             /\ IF r.threw
                THEN pc' = "exit1" /\ error' = "cleanup"
                ELSE pc' = "nodeModules" /\ error' = error
    /\ UNCHANGED <<options, content, manifest, fsFiles, analysisVars, answer,
                   prompted, cleanInvoked, cleanVars>>

\* the path is the directory itself or lies below it
IsUnder(path, directory) ==
    Len(path) >= Len(directory)
    /\ SubSeq(path, 1, Len(directory)) = directory

\* lines 318-327: rm -r node_modules when stat finds it
RemoveNodeModules ==
    /\ pc = "nodeModules"
    /\ \E io \in {"ok", "stat", "rm"} :
          IF io = "ok" /\ NodeModules \in fsDirs
          THEN /\ fsDirs' = {d \in fsDirs : ~IsUnder(d, NodeModules)}
               /\ fsFiles' = {f \in fsFiles : ~IsUnder(f, NodeModules)}
               /\ removedDirs' = Append(removedDirs, "node_modules")
          ELSE UNCHANGED <<fsDirs, fsFiles, removedDirs>>
    /\ pc' = "reinstall"
    /\ UNCHANGED <<options, content, manifest, error, analysisVars, answer,
                   prompted, cleanInvoked, ci, removedDependencies,
                   removedFiles, freedSpace>>

\* lines 330-341: npm install, whose failure is only warned about, and the
\* return of the result to the command, which prints it
Reinstall ==
    /\ pc = "reinstall"
    /\ \E ok \in BOOLEAN :
          IF ok
          THEN /\ fsDirs' = fsDirs \cup {NodeModules}
               /\ fsFiles' = fsFiles \cup {InstalledFile}
          ELSE UNCHANGED <<fsDirs, fsFiles>>
    /\ pc' = "cleanupComplete"
    /\ UNCHANGED <<options, content, manifest, error, analysisVars, answer,
                   prompted, cleanInvoked, cleanVars>>

Next ==
    \/ ReadManifest
    \/ GlobFiles
    \/ AnalyzeFile
    \/ FindUnusedDependencies
    \/ AfterAnalysis
    \/ Answer
    \/ CleanDependency
    \/ CleanFile
    \/ PruneDirectories
    \/ RemoveNodeModules
    \/ Reinstall

Spec == Init /\ [][Next]_vars

-----------------------------------------------------------------------------
(* What the files contain, read off their text and not off the analysis.   *)

Parsed(f) == content[f].parses

\* the string specifiers of the file's import declarations and require calls
StringSpecs(f) ==
    {st.value : st \in {x \in Range(content[f].stmts) :
                           x.argType = "Literal" /\ x.valueKind = "string"}}

IsInternal(spec) == StartsWithDot(spec) \/ StartsWithSlash(spec)

ExternalSpecs(f) == {v \in StringSpecs(f) : ~IsInternal(v)}

\* the files the file's internal references resolve to
InternalTargets(f) ==
    {Resolve(Dirname(f), v) : v \in {x \in StringSpecs(f) : IsInternal(x)}}

\* the file holds a require call whose argument is a Literal but no string
HasNonStringLiteral(f) ==
    \E st \in Range(content[f].stmts) :
        st.type = "CallExpression" /\ st.argType = "Literal"
        /\ st.valueKind # "string"

NoNonStringLiteral == \A f \in CandidateFiles : ~HasNonStringLiteral(f)

\* a specifier '@scope/name...'
IsScoped(spec) == Len(spec) >= 2 /\ spec[1] = "@scope"

UnusedPaths == {unusedFiles[i].path : i \in 1..Len(unusedFiles)}
UnusedNames == {unusedDependencies[i].name : i \in 1..Len(unusedDependencies)}
DeclaredNames ==
    {AllDependencies(manifest)[i].name : i \in 1..Len(AllDependencies(manifest))}

InitialFiles == CandidateFiles \cup {PackageJson, InstalledFile}
InitialDirs == {projectPath, SubDir, NodeModules}

CleanupSteps == {"cleanDeps", "cleanFiles", "prune", "nodeModules",
                 "reinstall", "cleanupComplete"}

\* the bytes of the files a list of relative paths names
RECURSIVE BytesOf(_)
BytesOf(paths) ==
    IF paths = <<>> THEN 0
    ELSE FileSize(Resolve(projectPath, Head(paths))) + BytesOf(Tail(paths))

-----------------------------------------------------------------------------
(* The claims.                                                             *)

\* C1: when the analysis has returned, every candidate file that parses is
\* in unusedFiles if and only if no other parsed candidate file has an
\* internal reference that resolves to it and it has no internal reference
\* itself, whatever the order glob gave. Stated for the projects without a
\* non-string require argument, so that only the processing order is at stake.
C1_UnusedFileIff ==
    (pc = "analysed" /\ NoNonStringLiteral) =>
        \A f \in CandidateFiles :
            Parsed(f) =>
                (RelativePath(f) \in UnusedPaths
                 <=> /\ ~\E g \in CandidateFiles \ {f} :
                           Parsed(g) /\ f \in InternalTargets(g)
                     /\ InternalTargets(f) = {})

\* C2: when the analysis has returned, a declared dependency is in
\* unusedDependencies if and only if no parsed candidate file holds an
\* external import/require specifier whose package name (as the code
\* extracts it) is that dependency.
C2_UnusedDependencyIff ==
    pc = "analysed" =>
        \A d \in DeclaredNames :
            d \in UnusedNames
            <=> ~\E f \in CandidateFiles :
                    Parsed(f) /\ \E v \in ExternalSpecs(f) : PackageName(v) = d

\* C3: when the analysis has returned, every scoped specifier '@scope/pkg'
\* of a parsed file has registered the two-segment name '@scope/pkg' as used,
\* and that name is not reported in unusedDependencies. Stated for the
\* projects without a non-string require argument.
C3_ScopedNameRegistered ==
    (pc = "analysed" /\ NoNonStringLiteral) =>
        \A f \in CandidateFiles :
            Parsed(f) =>
                \A v \in ExternalSpecs(f) :
                    IsScoped(v) =>
                        /\ <<v[1], v[2]>> \in usedDependencies
                        /\ <<v[1], v[2]>> \notin UnusedNames

\* C4: a file whose parse fails is never in unusedFiles, and the step that
\* handles it (its read having succeeded) leaves usedDependencies,
\* fileImports and unusedFiles as they were and moves the loop on to the
\* next file instead of ending the analysis.
C4_ParseFailureSkipped ==
    /\ [](\A f \in CandidateFiles :
            ~Parsed(f) => RelativePath(f) \notin UnusedPaths)
    /\ [][(/\ pc = "loop"
           /\ idx <= Len(files)
           /\ ~Parsed(files[idx])
           /\ pc' # "exit1")
          => (/\ usedDependencies' = usedDependencies
              /\ fileImports' = fileImports
              /\ unusedFiles' = unusedFiles
              /\ pc' = "loop"
              /\ idx' = idx + 1)]_vars

\* C4 witness: the analysis has returned a result although a.js, which holds
\* import/require statements, failed to parse; b.js was still classified.
C4_Witness ==
    /\ pc = "analysed"
    /\ ~Parsed(FileA)
    /\ content[FileA].stmts # <<>>
    /\ Parsed(FileB)
    /\ RelativePath(FileB) \in UnusedPaths
    /\ files = <<FileA, FileB>>

\* C5: the command never ends in its error exit because a candidate file
\* could not be read: before cleanup starts only the manifest aborts it.
C5_ReadFailureNotFatal ==
    (pc = "exit1" /\ ~cleanInvoked) => error = "manifest"

\* C6: cleanProject is invoked, and a cleanup step runs, only after the
\* analysis has completed with something unused, without --dry-run, and with
\* --yes or the answer 'y' (compared in lower case, as the code compares it)
\* to the prompt; with --dry-run nothing is cleaned and the disk is as it
\* was; the prompt is shown only when neither flag is set.
C6_CleanupGated ==
    /\ pc \in CleanupSteps => cleanInvoked
    /\ cleanInvoked =>
          /\ idx = Len(files) + 1
          /\ Len(files) = Cardinality(CandidateFiles)
          /\ ~NothingUnused
          /\ ~options.dryRun
          /\ options.yes \/ (prompted /\ answer \in {"y", "Y"})
    /\ options.dryRun =>
          /\ ~cleanInvoked
          /\ fsFiles = InitialFiles
          /\ fsDirs = InitialDirs
          /\ removedDependencies = <<>>
          /\ removedFiles = <<>>
          /\ removedDirs = <<>>
          /\ freedSpace = 0
    /\ prompted => (~options.yes /\ ~options.dryRun)

\* C6 witness: cleanProject ran to its end after the user was asked and
\* answered 'y', and it removed a file.
C6_Witness ==
    /\ pc = "cleanupComplete"
    /\ prompted
    /\ answer = "y"
    /\ ~options.yes
    /\ Len(removedFiles) > 0

\* C7: once cleanProject is invoked it never rejects: no failure of a single
\* item takes the command to its error exit.
C7_CleanupNeverThrows ==
    cleanInvoked => pc # "exit1"

\* C8: the freedSpace cleanProject returns is the sum of the sizes of the
\* files in removedFiles.
C8_FreedSpaceIsRemovedBytes ==
    pc = "cleanupComplete" => freedSpace = BytesOf(removedFiles)

\* C9: the unusedFiles set and the unusedDependencies set the analysis
\* returned are those it yields for every order of the candidate files.
C9_OrderIndependent ==
    pc = "analysed" =>
        \A order \in Orders(CandidateFiles) :
            LET g == AnalyzeInOrder(order, [used |-> {}, imports |-> {},
                                            unused |-> <<>>])
                deps == FindUnused(AllDependencies(manifest), g.used)
            IN /\ {g.unused[i].path : i \in 1..Len(g.unused)} = UnusedPaths
               /\ {deps[i].name : i \in 1..Len(deps)} = UnusedNames

\* C10: a require call whose argument is no string literal is skipped
\* silently: when the analysis has returned, every string reference of every
\* parsed file is recorded, and a parsed file that has no internal reference
\* and is no import target is classified (it is in unusedFiles).
C10_NonStringSkipped ==
    pc = "analysed" =>
        \A f \in CandidateFiles :
            Parsed(f) =>
                /\ \A v \in ExternalSpecs(f) :
                       PackageName(v) \in usedDependencies
                /\ InternalTargets(f) \subseteq fileImports
                /\ (InternalTargets(f) = {} /\ f \notin fileImports)
                       => RelativePath(f) \in UnusedPaths
====
